---- MODULE Spec2Model ----
(***************************************************************************)
(* GitHubWatcher (src/src/App.js): a React component that polls the GitHub *)
(* REST API for the activity of a list of tracked accounts.                *)
(*                                                                         *)
(* The component state (useState cells), the effect that starts fetchData  *)
(* and arms the interval, and every in-flight run of fetchData are the     *)
(* state of the model.  A run of fetchData is cut at its awaits: one       *)
(* action per response, which runs the code up to the next fetch or to the *)
(* end of the function.  The remote service is a state variable that the   *)
(* environment may change between any two steps.                           *)
(***************************************************************************)
EXTENDS Naturals, Integers, Sequences, FiniteSets, TLC

(***************************************************************************)
(* Bounds of the model.                                                    *)
(***************************************************************************)
MaxCycles == 2          \* runs of fetchData started in one behaviour
MaxProfiles == 2        \* length of the tracked-account list
MaxInput == 3           \* characters typed into the account text box
MaxRemoteChanges == 1   \* changes of the remote data in one behaviour

(***************************************************************************)
(* Text: a string is a sequence of characters.                             *)
(***************************************************************************)
Alphabet == {"a", "b", " ", ","}

Strings == UNION {[1..k -> Alphabet] : k \in 0..MaxInput}

Accounts == {<<"a">>, <<"b">>}

Tokens == {"", "t"}

\* The key of the cycle-level entry of the error object.
GlobalKey == <<"g", "l", "o", "b", "a", "l">>

RECURSIVE IndexOfComma(_, _)
\* Position of the first "," of s at or after i, 0 when there is none.
IndexOfComma(s, i) ==
    IF i > Len(s) THEN 0
    ELSE IF s[i] = "," THEN i
    ELSE IndexOfComma(s, i + 1)

RECURSIVE Split(_)
\* String.prototype.split(','): the pieces between the commas, empty ones kept.
Split(s) ==
    LET k == IndexOfComma(s, 1) IN
    IF k = 0 THEN <<s>>
    ELSE <<SubSeq(s, 1, k - 1)>> \o Split(SubSeq(s, k + 1, Len(s)))

RECURSIVE TrimStart(_)
TrimStart(s) ==
    IF s # <<>> /\ Head(s) = " " THEN TrimStart(Tail(s)) ELSE s

RECURSIVE TrimEnd(_)
TrimEnd(s) ==
    IF s # <<>> /\ s[Len(s)] = " " THEN TrimEnd(SubSeq(s, 1, Len(s) - 1)) ELSE s

\* String.prototype.trim()
Trim(s) == TrimEnd(TrimStart(s))

\* Array.prototype.includes
Includes(seq, x) == \E i \in 1..Len(seq) : seq[i] = x

\* newProfiles.split(',').map(p => p.trim())
TrimmedPieces(s) == LET pieces == Split(s) IN [i \in 1..Len(pieces) |-> Trim(pieces[i])]

\* The texts the model types: those naming only accounts the remote knows.
Inputs ==
    {s \in Strings :
        \A i \in 1..Len(TrimmedPieces(s)) :
            TrimmedPieces(s)[i] \in Accounts \cup {<<>>}}

(***************************************************************************)
(* JavaScript objects used as maps: functions with a finite domain.        *)
(***************************************************************************)
EmptyMap == [k \in {} |-> 0]

Put(m, k, v) == [x \in (DOMAIN m) \cup {k} |-> IF x = k THEN v ELSE m[x]]

Msg(text, arg) == [text |-> text, arg |-> arg]

(***************************************************************************)
(* The remote service.  A response is what fetch() and response.json()     *)
(* give the code: fetch rejects (net = "reject") or resolves with a status *)
(* (ok) and a body; the body does not parse ("nojson"), parses to an       *)
(* object that is not the expected one ("object"), or is the expected      *)
(* value: the rate-limit resources ("core", val = remaining), a profile    *)
(* ("profile", val = public_repos) or an array ("array", items).           *)
(***************************************************************************)
Response(net, ok, body, val, items) ==
    [net |-> net, ok |-> ok, body |-> body, val |-> val, items |-> items]

Rejected == Response("reject", FALSE, "none", 0, <<>>)

\* A status with a body that is no JSON, or JSON such as {"message": ...}.
Plain(ok, body) == Response("resolve", ok, body, 0, <<>>)

RateCore(ok, remaining) == Response("resolve", ok, "core", remaining, <<>>)

Profile(publicRepos) == Response("resolve", TRUE, "profile", publicRepos, <<>>)

Array(ok, items) == Response("resolve", ok, "array", 0, items)

Null == "null"

Repo(name, homepage, language, created) ==
    [name |-> name, html_url |-> <<"https://github.com", name>>,
     homepage |-> homepage, language |-> language, created_at |-> created]

Commit(message, date) ==
    [message |-> message, date |-> date, html_url |-> <<"commit", message>>]

RepoX == Repo("x", "https://x.example", "JavaScript", 3)
RepoY == Repo("y", "", Null, 2)
RepoZ == Repo("z", Null, "Go", 1)

\* What GET /rate_limit may answer: the request is rejected, a non-success
\* status comes with an error page or an error object, a success status with
\* the resources.
RateResponses ==
    {Rejected, Plain(FALSE, "nojson"), Plain(FALSE, "object"),
     RateCore(TRUE, 0), RateCore(TRUE, 5)}

AcctData(user, repos, commits) == [user |-> user, repos |-> repos, commits |-> commits]

NoCommitData == [n \in {} |-> Rejected]

\* the profile request is rejected by the network
AcctUnreachable == AcctData(Rejected, Rejected, NoCommitData)
\* the profile request answers 404
AcctNotFound == AcctData(Plain(FALSE, "object"), Plain(FALSE, "object"), NoCommitData)
\* an account without repositories
AcctNoRepos == AcctData(Profile(0), Array(TRUE, <<>>), NoCommitData)
\* repositories, none with a commit since the reference date
AcctQuiet ==
    AcctData(Profile(4), Array(TRUE, <<RepoX, RepoY>>),
             [n \in {"x", "y"} |-> Array(TRUE, <<>>)])
\* one active repository whose commits are not listed newest first
AcctActive ==
    AcctData(Profile(7), Array(TRUE, <<RepoX, RepoY>>),
             [n \in {"x", "y"} |->
                 IF n = "x"
                 THEN Array(TRUE, <<Commit("c1", 2), Commit("c2", 5), Commit("c3", 3)>>)
                 ELSE Array(TRUE, <<>>)])
\* the commit request of the second of three repositories is rejected
AcctCommitsRejected ==
    AcctData(Profile(3), Array(TRUE, <<RepoX, RepoY, RepoZ>>),
             [n \in {"x", "y", "z"} |->
                 IF n = "x" THEN Array(TRUE, <<Commit("c4", 4)>>)
                 ELSE IF n = "y" THEN Rejected
                 ELSE Array(TRUE, <<Commit("c5", 6)>>)])
\* the commit request of the first repository answers 409 with a JSON object
AcctCommitsConflict ==
    AcctData(Profile(2), Array(TRUE, <<RepoX, RepoY>>),
             [n \in {"x", "y"} |->
                 IF n = "x" THEN Plain(FALSE, "object")
                 ELSE Array(TRUE, <<Commit("c6", 8)>>)])
\* the repository listing answers 403 with a JSON object
AcctReposForbidden == AcctData(Profile(1), Plain(FALSE, "object"), NoCommitData)

\* The account data the model draws from: what a and b hold.
World(forA, forB) == [acct \in Accounts |-> IF acct = <<"a">> THEN forA ELSE forB]

Worlds ==
    {World(AcctActive, AcctNotFound),
     World(AcctQuiet, AcctNoRepos),
     World(AcctCommitsRejected, AcctUnreachable),
     World(AcctCommitsConflict, AcctReposForbidden)}

Remotes == [rate : RateResponses, acct : Worlds]

InitialRemote == [rate |-> RateCore(TRUE, 5), acct |-> World(AcctActive, AcctNotFound)]

\* GET /repos/{account}/{repo}/commits against the remote data r.
CommitsOf(r, account, repoName) ==
    IF repoName \in DOMAIN r.acct[account].commits
    THEN r.acct[account].commits[repoName]
    ELSE Plain(FALSE, "object")

(***************************************************************************)
(* State.                                                                  *)
(*   profiles, newProfiles, activities, errors, token, rateLimit           *)
(*              the useState cells of the component                        *)
(*   mounted    the component is mounted                                   *)
(*   timers     the armed intervals, each the closure of the render that   *)
(*              armed it (its profiles and headers)                        *)
(*   cycles     the runs of fetchData, in the order they started, each     *)
(*              with its locals and the requests it has issued             *)
(*   lastDone   the run that finished last (0: none)                       *)
(*   remote     the data of the remote service                             *)
(*   nChanges   how often the remote data has changed                      *)
(***************************************************************************)
VARIABLES profiles, newProfiles, activities, errors, token, rateLimit,
          mounted, timers, cycles, lastDone, remote, nChanges

vars == <<profiles, newProfiles, activities, errors, token, rateLimit,
          mounted, timers, cycles, lastDone, remote, nChanges>>

\* const headers = token ? { Authorization: `token ${token}` } : {};
Headers(tok) == IF tok = "" THEN {} ELSE {<<"Authorization", <<"token ", tok>>>>}

\* new Date(2024, 8, 27) at local midnight, as the commits request carries it
SinceDate == <<2024, 8, 27>>

\* The three cells a run of fetchData writes.
Published == [activities |-> activities, errors |-> errors, rateLimit |-> rateLimit]

Closure(profs, tok) == [profiles |-> profs, headers |-> Headers(tok)]

Request(kind, account, repoName, hdrs) ==
    [kind |-> kind, account |-> account, repo |-> repoName, headers |-> hdrs,
     since |-> IF kind = "commits" THEN SinceDate ELSE <<>>,
     answered |-> FALSE, resp |-> Rejected]

\* A fetch that reads the token of the latest render instead of the headers
\* its closure captured.
IssueWithLatestToken(loc, kind, account, repoName) ==
    [loc EXCEPT !.log = Append(@, Request(kind, account, repoName, Headers(token)))]

\* fetch(...): the request is appended to the requests of the run.
Issue(loc, kind, account, repoName) ==
    [loc EXCEPT !.log = Append(@, Request(kind, account, repoName, loc.headers))]

\* The pending request of the run gets its response.
Answer(loc, resp) ==
    [loc EXCEPT !.log[Len(loc.log)].answered = TRUE, !.log[Len(loc.log)].resp = resp]

\* error.message of what fetch or json() throws
FetchFailure(resp) ==
    IF resp.net = "reject" THEN Msg("Failed to fetch", <<>>)
    ELSE IF resp.body = "nojson" THEN Msg("Unexpected token in JSON", <<>>)
    ELSE Msg("Cannot read properties of undefined", <<>>)

\* Math.max(...commits.map(c => new Date(c.commit.author.date)))
\* (Math.max() of no argument is -Infinity, an invalid date)
MaxDate(commits) ==
    IF commits = <<>> THEN -1
    ELSE CHOOSE d \in {commits[k].date : k \in 1..Len(commits)} :
             \A k \in 1..Len(commits) : commits[k].date <= d

(***************************************************************************)
(* fetchData.  The locals of a run are a record loc:                       *)
(*   pc            the request the run waits for: "rate", "user", "repos", *)
(*                 "commits", or "done"                                    *)
(*   profiles, headers   the values captured by the closure                *)
(*   i, j          positions of the two for-loops                          *)
(*   userData, repos, newActivities, newErrors   the locals of the code    *)
(*   log           the requests issued so far, with their responses        *)
(*   outcome       how the run ended                                       *)
(*   env, clean    the remote data when the run started, and whether they  *)
(*                 have stayed the same since                              *)
(*   prev, prevAtFinish   lastDone when the run started and when it ended  *)
(*   result        activities and errors as the run left them              *)
(* A step of a run is a pair: the new locals and the new published cells.  *)
(***************************************************************************)
Step(loc, pub) == [loc |-> loc, pub |-> pub]

Ended(loc, outcome) == [loc EXCEPT !.pc = "done", !.outcome = outcome]

CurrentProfile(loc) == loc.profiles[loc.i]

\* A run that publishes its activities and merges its errors into those shown.
PublishResultMergesErrors(loc, pub) ==
    Step(Ended(loc, "published"),
         [pub EXCEPT !.activities = loc.newActivities,
                     !.errors = [k \in (DOMAIN pub.errors) \cup (DOMAIN loc.newErrors) |->
                                    IF k \in DOMAIN loc.newErrors THEN loc.newErrors[k]
                                    ELSE pub.errors[k]]])

\* setActivities(newActivities); setErrors(newErrors); the two setters are
\* called one after the other with no await between them, and React applies
\* both in one render.
PublishResult(loc, pub) ==
    Step(Ended(loc, "published"),
         [pub EXCEPT !.activities = loc.newActivities, !.errors = loc.newErrors])

\* for (const profile of profiles): the next account, or the end of the loop
NextProfile(loc, pub) ==
    IF loc.i < Len(loc.profiles)
    THEN Step(Issue([loc EXCEPT !.i = @ + 1, !.pc = "user"],
                    "user", loc.profiles[loc.i + 1], ""), pub)
    ELSE PublishResult(loc, pub)

\* A catch outside the loop: the error ends the loop over the accounts.
CatchEndsLoop(loc, message, pub) ==
    PublishResult([loc EXCEPT !.newErrors = Put(@, CurrentProfile(loc), message)], pub)

\* catch (error) { newErrors[profile] = error.message; }
CatchForProfile(loc, message, pub) ==
    NextProfile([loc EXCEPT !.newErrors = Put(@, CurrentProfile(loc), message)], pub)

\* for (const repo of repos): the next repository, or the end of the loop
NextRepo(loc, pub) ==
    IF loc.j < Len(loc.repos)
    THEN Step(Issue([loc EXCEPT !.j = @ + 1, !.pc = "commits"],
                    "commits", CurrentProfile(loc), loc.repos[loc.j + 1].name), pub)
    ELSE NextProfile(loc, pub)

\* The rateLimit cell: useState(null) holds no value, setRateLimit(v) one value.
Unset == <<>>

Holds(v) == <<v>>

\* rateLimitData.resources.core
Core(resp) == [limit |-> 60, remaining |-> resp.val, reset |-> 1700000000]

\* A check that takes only a negative remaining for exhaustion.
RateLimitExhaustedBelowZero(core) == core.remaining < 0

\* rateLimitData.resources.core.remaining === 0
RateLimitExhausted(core) == core.remaining = 0

GlobalError(message) == Put(EmptyMap, GlobalKey, message)

\* A catch that adds the global message to the errors already shown.
RateCheckFailedKeepsErrors(loc, resp, pub) ==
    Step(Ended(loc, "ratefail"),
         [pub EXCEPT !.errors =
             Put(@, GlobalKey,
                 Msg("Error checking rate limit: ", <<FetchFailure(resp).text>>))])

\* the catch of the rate-limit check
RateCheckFailed(loc, resp, pub) ==
    Step(Ended(loc, "ratefail"),
         [pub EXCEPT !.errors =
             GlobalError(Msg("Error checking rate limit: ", <<FetchFailure(resp).text>>))])

\* An abort that also publishes the still empty newActivities.
QuotaExceededPublishes(loc, pub) ==
    Step(Ended(loc, "quota"),
         [pub EXCEPT !.activities = loc.newActivities,
                     !.errors =
             GlobalError(Msg("API rate limit exceeded. Please wait or add a Personal Access Token.", <<>>))])

\* the branch taken when remaining === 0
QuotaExceeded(loc, pub) ==
    Step(Ended(loc, "quota"),
         [pub EXCEPT !.errors =
             GlobalError(Msg("API rate limit exceeded. Please wait or add a Personal Access Token.", <<>>))])

\* The rate-limit response arrives: lines 21-32, then the head of the loop.
OnRateLimit(loc0, resp, pub) ==
    LET loc == Answer(loc0, resp) IN
    IF resp.net = "reject" \/ resp.body # "core"
    THEN RateCheckFailed(loc, resp, pub)
    ELSE LET pub1 == [pub EXCEPT !.rateLimit = Holds(Core(resp))] IN
         IF RateLimitExhausted(Core(resp))
         THEN QuotaExceeded(loc, pub1)
         ELSE NextProfile(loc, pub1)

\* The profile response arrives: lines 36-42.
OnUser(loc0, resp, pub) ==
    LET loc == Answer(loc0, resp) IN
    IF resp.net = "reject" THEN CatchForProfile(loc, FetchFailure(resp), pub)
    ELSE IF ~resp.ok
    THEN CatchForProfile(loc, Msg("User not found", CurrentProfile(loc)), pub)
    ELSE IF resp.body = "nojson" THEN CatchForProfile(loc, FetchFailure(resp), pub)
    ELSE Step(Issue([loc EXCEPT !.userData = [public_repos |-> resp.val], !.pc = "repos"],
                    "repos", CurrentProfile(loc), ""), pub)

\* A check that never takes the listing for empty.
ReposEmptyNever(repos) == Len(repos) < 0

\* repos.length === 0
ReposEmpty(repos) == Len(repos) = 0

\* The repository listing arrives: lines 43-54.
OnRepos(loc0, resp, pub) ==
    LET loc == Answer(loc0, resp) IN
    IF resp.net = "reject" \/ resp.body = "nojson"
    THEN CatchForProfile(loc, FetchFailure(resp), pub)
    ELSE IF resp.body # "array"
    THEN CatchForProfile(loc, Msg("repos is not iterable", <<>>), pub)
    ELSE IF ReposEmpty(resp.items)
    THEN NextProfile([loc EXCEPT !.newErrors =
                         Put(@, CurrentProfile(loc),
                             Msg("No public repositories found for", CurrentProfile(loc)))],
                     pub)
    ELSE NextRepo([loc EXCEPT !.repos = resp.items, !.j = 0], pub)

\* A check that lets an empty listing through.
HasCommitsOrNone(commits) == Len(commits) >= 0

\* commits.length > 0
HasCommits(commits) == Len(commits) > 0

\* The date of the first commit listed, taken for the newest.
LastUpdatedFirstListed(commits) == commits[1].date

\* lastUpdated of the record pushed for commits
LastUpdated(commits) == MaxDate(commits)

\* The object pushed to newActivities: lines 58-73.
ActivityRecord(profile, repo, commits, userData) ==
    [type |-> "activity",
     profile |-> profile,
     repo |-> repo.name,
     repoUrl |-> repo.html_url,
     productionUrl |-> IF repo.homepage \in {"", Null} THEN Null ELSE repo.homepage,
     techStack |-> repo.language,
     commits |-> [k \in 1..Len(commits) |->
                     [message |-> commits[k].message, date |-> commits[k].date,
                      commitUrl |-> commits[k].html_url]],
     repoCount |-> userData.public_repos,
     lastUpdated |-> LastUpdated(commits),
     creationDate |-> repo.created_at]

\* A catch that also drops the records pushed for the account so far.
OnCommitsAllOrNothing(loc0, resp, pub) ==
    LET loc == Answer(loc0, resp) IN
    IF resp.net = "reject" \/ resp.body = "nojson"
    THEN CatchForProfile([loc EXCEPT !.newActivities =
                             SelectSeq(@, LAMBDA r : r.profile # CurrentProfile(loc))],
                         FetchFailure(resp), pub)
    ELSE IF resp.body = "array" /\ HasCommits(resp.items)
    THEN NextRepo([loc EXCEPT !.newActivities =
                      Append(@, ActivityRecord(CurrentProfile(loc), loc.repos[loc.j],
                                               resp.items, loc.userData))],
                  pub)
    ELSE NextRepo(loc, pub)

\* The commit listing of repository j arrives: lines 55-75.
OnCommits(loc0, resp, pub) ==
    LET loc == Answer(loc0, resp) IN
    IF resp.net = "reject" \/ resp.body = "nojson"
    THEN CatchForProfile(loc, FetchFailure(resp), pub)
    ELSE IF resp.body = "array" /\ HasCommits(resp.items)
    THEN NextRepo([loc EXCEPT !.newActivities =
                      Append(@, ActivityRecord(CurrentProfile(loc), loc.repos[loc.j],
                                               resp.items, loc.userData))],
                  pub)
    ELSE NextRepo(loc, pub)

\* A run that starts from the activities shown instead of an empty list.
FetchDataAccumulates(profs, hdrs) ==
    Issue([pc |-> "rate", profiles |-> profs, headers |-> hdrs, i |-> 0, j |-> 0,
           userData |-> [public_repos |-> 0], repos |-> <<>>,
           newActivities |-> activities, newErrors |-> EmptyMap, log |-> <<>>,
           outcome |-> "running", env |-> remote, clean |-> TRUE,
           prev |-> lastDone, prevAtFinish |-> 0,
           result |-> [activities |-> <<>>, errors |-> EmptyMap]],
          "rate_limit", <<>>, "")

\* const newActivities = []; const newErrors = {}; then the rate-limit request
FetchData(profs, hdrs) ==
    Issue([pc |-> "rate", profiles |-> profs, headers |-> hdrs, i |-> 0, j |-> 0,
           userData |-> [public_repos |-> 0], repos |-> <<>>,
           newActivities |-> <<>>, newErrors |-> EmptyMap, log |-> <<>>,
           outcome |-> "running", env |-> remote, clean |-> TRUE,
           prev |-> lastDone, prevAtFinish |-> 0,
           result |-> [activities |-> <<>>, errors |-> EmptyMap]],
          "rate_limit", <<>>, "")

(***************************************************************************)
(* The component.                                                          *)
(***************************************************************************)
Init ==
    /\ profiles = <<>>
    /\ newProfiles = <<>>
    /\ activities = <<>>
    /\ errors = EmptyMap
    /\ token = ""
    /\ rateLimit = Unset
    /\ mounted = TRUE
    /\ timers = {}
    /\ cycles = <<>>
    /\ lastDone = 0
    /\ remote = InitialRemote
    /\ nChanges = 0

InFlight(c) == c \in 1..Len(cycles) /\ cycles[c].pc # "done"

\* A run that clears the interval when it ends without publishing a result.
FinishStopsOnAbort(c, st) ==
    LET pub == IF mounted THEN st.pub ELSE Published
        res == [activities |-> pub.activities, errors |-> pub.errors]
        done == st.loc.pc = "done"
    IN  /\ activities' = pub.activities
        /\ errors' = pub.errors
        /\ rateLimit' = pub.rateLimit
        /\ cycles' = [cycles EXCEPT ![c] =
                         IF done
                         THEN [st.loc EXCEPT !.prevAtFinish = lastDone, !.result = res]
                         ELSE st.loc]
        /\ lastDone' = IF done THEN c ELSE lastDone
        /\ timers' = IF done /\ st.loc.outcome # "published" THEN {} ELSE timers
        /\ UNCHANGED <<profiles, newProfiles, token, mounted, remote, nChanges>>

\* The state setters called by a run take effect while the component is
\* mounted; the run's locals are replaced by those of the step.
Finish(c, st) ==
    LET pub == IF mounted THEN st.pub ELSE Published
        res == [activities |-> pub.activities, errors |-> pub.errors]
        done == st.loc.pc = "done"
    IN  /\ activities' = pub.activities
        /\ errors' = pub.errors
        /\ rateLimit' = pub.rateLimit
        /\ cycles' = [cycles EXCEPT ![c] =
                         IF done
                         THEN [st.loc EXCEPT !.prevAtFinish = lastDone, !.result = res]
                         ELSE st.loc]
        /\ lastDone' = IF done THEN c ELSE lastDone
        /\ UNCHANGED <<profiles, newProfiles, token, mounted, timers, remote, nChanges>>

RateLimitResponse(c) ==
    /\ InFlight(c) /\ cycles[c].pc = "rate"
    /\ Finish(c, OnRateLimit(cycles[c], remote.rate, Published))

UserResponse(c) ==
    /\ InFlight(c) /\ cycles[c].pc = "user"
    /\ Finish(c, OnUser(cycles[c], remote.acct[CurrentProfile(cycles[c])].user, Published))

ReposResponse(c) ==
    /\ InFlight(c) /\ cycles[c].pc = "repos"
    /\ Finish(c, OnRepos(cycles[c], remote.acct[CurrentProfile(cycles[c])].repos, Published))

CommitsResponse(c) ==
    /\ InFlight(c) /\ cycles[c].pc = "commits"
    /\ Finish(c, OnCommits(cycles[c],
                           CommitsOf(remote, CurrentProfile(cycles[c]),
                                     cycles[c].repos[cycles[c].j].name),
                           Published))

\* An effect without cleanup: the interval armed before stays armed.
CleanupNothing == timers

\* return () => clearInterval(interval): the cleanup of the effect of the
\* current render, which armed an interval only for a non-empty list.
Cleanup == IF Len(profiles) > 0 THEN timers \ {Closure(profiles, token)} ELSE timers

\* An effect without the test of profiles.length.
RunEffectAlways(profs, tok) ==
    /\ Len(cycles) < MaxCycles
    /\ cycles' = Append(cycles, FetchData(profs, Headers(tok)))
    /\ timers' = Cleanup \cup {Closure(profs, tok)}

\* The body of the effect for the render with profs and tok: lines 84-88.
RunEffect(profs, tok) ==
    IF Len(profs) > 0
    THEN /\ Len(cycles) < MaxCycles
         /\ cycles' = Append(cycles, FetchData(profs, Headers(tok)))
         /\ timers' = Cleanup \cup {Closure(profs, tok)}
    ELSE /\ cycles' = cycles
         /\ timers' = Cleanup

\* A filter that drops the empty pieces only.
ProfileListKeepsPresent(s) == SelectSeq(TrimmedPieces(s), LAMBDA p : p # <<>>)

\* .filter(p => p && !profiles.includes(p))
ProfileList(s) ==
    SelectSeq(TrimmedPieces(s), LAMBDA p : p # <<>> /\ ~Includes(profiles, p))

\* The form is submitted with the text s in the box: lines 91-98, and the
\* effect of the render that follows a change of profiles.
HandleAddProfiles(s) ==
    /\ mounted
    /\ IF Len(ProfileList(s)) > 0
       THEN /\ Len(profiles) + Len(ProfileList(s)) <= MaxProfiles
            /\ profiles' = profiles \o ProfileList(s)
            /\ newProfiles' = <<>>
            /\ RunEffect(profiles', token)
       ELSE /\ newProfiles' = s
            /\ UNCHANGED <<profiles, timers, cycles>>
    /\ UNCHANGED <<activities, errors, token, rateLimit, mounted, lastDone, remote, nChanges>>

\* onChange of the token box: setToken, and the effect of the render that follows.
SetToken(t) ==
    /\ mounted
    /\ t # token
    /\ token' = t
    /\ RunEffect(profiles, t)
    /\ UNCHANGED <<profiles, newProfiles, activities, errors, rateLimit, mounted, lastDone,
                   remote, nChanges>>

\* An armed interval fires: fetchData of the closure that armed it.
TimerFire(cl) ==
    /\ cl \in timers
    /\ Len(cycles) < MaxCycles
    /\ cycles' = Append(cycles, FetchData(cl.profiles, cl.headers))
    /\ UNCHANGED <<profiles, newProfiles, activities, errors, token, rateLimit, mounted,
                   timers, lastDone, remote, nChanges>>

\* An unmount that leaves the interval armed.
UnmountKeepsInterval ==
    /\ mounted
    /\ mounted' = FALSE
    /\ UNCHANGED <<profiles, newProfiles, activities, errors, token, rateLimit, timers,
                   cycles, lastDone, remote, nChanges>>

\* The component is unmounted: the cleanup of the effect runs.
Unmount ==
    /\ mounted
    /\ mounted' = FALSE
    /\ timers' = Cleanup
    /\ UNCHANGED <<profiles, newProfiles, activities, errors, token, rateLimit, cycles,
                   lastDone, remote, nChanges>>

\* The remote data change in one place: the rate limit or the account data.
RemoteChange(r) ==
    /\ nChanges < MaxRemoteChanges
    /\ r # remote
    /\ r.acct = remote.acct \/ r.rate = remote.rate
    /\ remote' = r
    /\ nChanges' = nChanges + 1
    /\ cycles' = [c \in 1..Len(cycles) |->
                     IF cycles[c].pc # "done" THEN [cycles[c] EXCEPT !.clean = FALSE]
                     ELSE cycles[c]]
    /\ UNCHANGED <<profiles, newProfiles, activities, errors, token, rateLimit, mounted,
                   timers, lastDone>>

\* A submit that adds at least one account.
SubmitNew(s) == Len(ProfileList(s)) > 0 /\ HandleAddProfiles(s)

Next ==
    \/ \E s \in Inputs : SubmitNew(s)
    \/ \E t \in Tokens : SetToken(t)
    \/ \E cl \in timers : TimerFire(cl)
    \/ Unmount
    \/ \E c \in 1..Len(cycles) : RateLimitResponse(c)
    \/ \E c \in 1..Len(cycles) : UserResponse(c)
    \/ \E c \in 1..Len(cycles) : ReposResponse(c)
    \/ \E c \in 1..Len(cycles) : CommitsResponse(c)
    \/ \E r \in Remotes : RemoteChange(r)

Spec == Init /\ [][Next]_vars

(***************************************************************************)
(* The form and the scheduler alone: every text of Inputs is submitted,    *)
(* also those that add nothing and stay in the box, while the network      *)
(* leaves every request unanswered.                                        *)
(***************************************************************************)
NextForm ==
    \/ \E s \in Inputs : HandleAddProfiles(s)
    \/ \E t \in Tokens : SetToken(t)
    \/ \E cl \in timers : TimerFire(cl)
    \/ Unmount

SpecForm == Init /\ [][NextForm]_vars

(***************************************************************************)
(* Vocabulary of the properties.                                           *)
(***************************************************************************)
Runs == 1..Len(cycles)

\* The requests of run c to the account endpoints.
AccountRequests(c) ==
    {k \in 1..Len(cycles[c].log) : cycles[c].log[k].kind \in {"user", "repos", "commits"}}

\* Run c has the response of its rate-limit check.
RateAnswered(c) == cycles[c].log[1].answered

RateResponse(c) == cycles[c].log[1].resp

\* The rate-limit check of run c returned remaining = 0.
ReturnedZero(c) ==
    /\ RateAnswered(c)
    /\ RateResponse(c).net = "resolve"
    /\ RateResponse(c).body = "core"
    /\ RateResponse(c).val = 0

\* The rate-limit check of run c failed: unreachable, or a non-success status.
RateFailed(c) ==
    /\ RateAnswered(c)
    /\ RateResponse(c).net = "reject" \/ ~RateResponse(c).ok

\* Run c gets the response of its rate-limit check in this step.
RateArrives(c) == c \in Runs /\ cycles[c].pc = "rate" /\ cycles'[c].pc # "rate"

PerAccount(m) == [k \in (DOMAIN m) \ {GlobalKey} |-> m[k]]

QuotaMessage ==
    Msg("API rate limit exceeded. Please wait or add a Personal Access Token.", <<>>)

(***************************************************************************)
(* C1: a run whose rate-limit check returned remaining = 0 issues no       *)
(* request for a profile, a repository listing or a commit listing,        *)
(* whatever accounts are tracked and whatever the token is.                *)
(***************************************************************************)
C1_NoAccountRequestWhenExhausted ==
    \A c \in Runs : ReturnedZero(c) => AccountRequests(c) = {}

\* A run with a token has ended on remaining = 0 with two accounts tracked.
C1_Witness ==
    \E c \in Runs :
        /\ ReturnedZero(c)
        /\ cycles[c].pc = "done"
        /\ Len(cycles[c].profiles) = 2
        /\ cycles[c].headers # {}

(***************************************************************************)
(* C2 as stated: a run that aborts on remaining = 0 leaves the published   *)
(* activities and the per-account error entries as they were.              *)
(***************************************************************************)
C2_PreviousResultKept ==
    [][\A c \in Runs :
          (RateArrives(c) /\ ReturnedZero(c)' /\ mounted)
              => /\ activities' = activities
                 /\ PerAccount(errors') = PerAccount(errors)]_vars

(***************************************************************************)
(* C2 amended: a run that aborts on remaining = 0 leaves the published     *)
(* activities as they were, publishes the returned rate limit, and         *)
(* replaces the whole error object by the one global quota message, so     *)
(* the per-account entries of the previous cycle are gone.                 *)
(***************************************************************************)
C2_ActivitiesKeptErrorsReplaced ==
    [][\A c \in Runs :
          (RateArrives(c) /\ ReturnedZero(c)' /\ mounted)
              => /\ activities' = activities
                 /\ errors' = GlobalError(QuotaMessage)
                 /\ rateLimit' = Holds(Core(RateResponse(c)'))
                 /\ cycles'[c].pc = "done"]_vars

\* A run has aborted on remaining = 0 after a run that published records and
\* a per-account error; the records are still shown, the error entry is not.
C2_Witness ==
    \E c1, c2 \in Runs :
        /\ cycles[c1].outcome = "published"
        /\ cycles[c1].newActivities # <<>>
        /\ PerAccount(cycles[c1].newErrors) # EmptyMap
        /\ cycles[c2].outcome = "quota"
        /\ cycles[c2].prevAtFinish = c1
        /\ lastDone = c2
        /\ mounted
        /\ activities = cycles[c1].newActivities
        /\ errors = GlobalError(QuotaMessage)

(***************************************************************************)
(* C3: when the rate-limit check fails (the request is rejected, or the    *)
(* status is no success), the run ends at once without a request to an     *)
(* account endpoint, the published errors become one global message and    *)
(* nothing else, and the published activities stay as they were.           *)
(***************************************************************************)
C3_RateCheckFailureAborts ==
    [][\A c \in Runs :
          (RateArrives(c) /\ RateFailed(c)')
              => /\ cycles'[c].pc = "done"
                 /\ AccountRequests(c)' = {}
                 /\ activities' = activities
                 /\ mounted => /\ DOMAIN errors' = {GlobalKey}
                               /\ errors'[GlobalKey].text = "Error checking rate limit: "]_vars

\* A run has ended on a failed rate-limit check after a run that published
\* records and a per-account error.
C3_Witness ==
    \E c1, c2 \in Runs :
        /\ cycles[c1].outcome = "published"
        /\ cycles[c1].newActivities # <<>>
        /\ PerAccount(cycles[c1].newErrors) # EmptyMap
        /\ cycles[c2].outcome = "ratefail"
        /\ RateFailed(c2)
        /\ cycles[c2].prevAtFinish = c1
        /\ lastDone = c2
        /\ mounted
        /\ activities = cycles[c1].newActivities
        /\ DOMAIN errors = {GlobalKey}

(***************************************************************************)
(* Vocabulary of the per-account properties.                               *)
(***************************************************************************)
PublishedRun(c) == cycles[c].outcome = "published"

Tracked(c) == {cycles[c].profiles[i] : i \in 1..Len(cycles[c].profiles)}

\* The answered requests of run c of one kind for account a.
Answered(c, kind, a) ==
    {k \in 1..Len(cycles[c].log) :
        /\ cycles[c].log[k].kind = kind
        /\ cycles[c].log[k].account = a
        /\ cycles[c].log[k].answered}

RecordsOf(records, a) == SelectSeq(records, LAMBDA r : r.profile = a)

Without(m, a) == [k \in (DOMAIN m) \ {a} |-> m[k]]

\* A profile lookup that fails: no answer, or a non-success status.
LookupFailed(resp) == resp.net = "reject" \/ ~resp.ok

\* Every profile lookup of run c for account a failed.
ProfileLookupFails(c, a) ==
    /\ Answered(c, "user", a) # {}
    /\ \A k \in Answered(c, "user", a) : LookupFailed(cycles[c].log[k].resp)

\* Run c gets, in this step, a failed response to its profile lookup.
FailedLookupArrives(c) ==
    /\ c \in Runs
    /\ cycles[c].pc = "user"
    /\ cycles'[c].log[Len(cycles[c].log)].answered
    /\ LookupFailed(cycles'[c].log[Len(cycles[c].log)].resp)

\* What a published run holds for an account whose lookups failed.
C4_FailedAccount ==
    \A c \in Runs : \A a \in Accounts :
        (PublishedRun(c) /\ a \in Tracked(c) /\ ProfileLookupFails(c, a))
            => /\ a \in DOMAIN cycles[c].newErrors
               /\ cycles[c].newErrors[a] \in
                      {Msg("User not found", a), Msg("Failed to fetch", <<>>)}
               /\ RecordsOf(cycles[c].newActivities, a) = <<>>
               /\ \A k \in 1..Len(cycles[c].log) :
                      cycles[c].log[k].account = a => cycles[c].log[k].kind = "user"

\* Two runs over the same remote data, the second without the failing account.
C4_AsIfNotTracked ==
    \A c1, c2 \in Runs : \A a \in Accounts :
        (/\ PublishedRun(c1) /\ PublishedRun(c2)
         /\ cycles[c1].clean /\ cycles[c2].clean /\ cycles[c1].env = cycles[c2].env
         /\ a \in Tracked(c1) /\ ProfileLookupFails(c1, a)
         /\ cycles[c2].profiles = SelectSeq(cycles[c1].profiles, LAMBDA p : p # a))
            => /\ cycles[c1].newActivities = cycles[c2].newActivities
               /\ Without(cycles[c1].newErrors, a) = cycles[c2].newErrors

\* The step that handles the failed lookup touches nothing of another
\* account and goes on with the next account, or publishes after the last.
C4_OthersUntouched ==
    \A c \in Runs :
        FailedLookupArrives(c)
            => LET a == CurrentProfile(cycles[c]) IN
               /\ cycles'[c].newActivities = cycles[c].newActivities
               /\ Without(cycles'[c].newErrors, a) = Without(cycles[c].newErrors, a)
               /\ IF cycles[c].i < Len(cycles[c].profiles)
                  THEN cycles'[c].pc = "user" /\ cycles'[c].i = cycles[c].i + 1
                  ELSE PublishedRun(c)'

(***************************************************************************)
(* C4: in a run that is not aborted, an account whose profile lookup fails *)
(* gets one error entry and no record, no repository or commit request is  *)
(* issued for it, and what the run holds for the other accounts is what a  *)
(* run without the failing account holds.                                  *)
(***************************************************************************)
C4_FailedLookupIsolated ==
    /\ [](C4_FailedAccount /\ C4_AsIfNotTracked)
    /\ [][C4_OthersUntouched]_vars

\* A run over a and b, where b's lookup failed, and a run over a alone have
\* published the same records for a.
C4_Witness ==
    \E c1, c2 \in Runs :
        /\ PublishedRun(c1) /\ PublishedRun(c2)
        /\ cycles[c1].clean /\ cycles[c2].clean /\ cycles[c1].env = cycles[c2].env
        /\ cycles[c1].profiles = <<<<"a">>, <<"b">>>>
        /\ cycles[c2].profiles = <<<<"a">>>>
        /\ ProfileLookupFails(c1, <<"b">>)
        /\ <<"b">> \in DOMAIN cycles[c1].newErrors
        /\ cycles[c1].newActivities # <<>>

(***************************************************************************)
(* C5 as stated: a commit request that fails (the request is rejected or   *)
(* the status is no success) is recorded as the error of the account, and  *)
(* no further repository of the account is fetched.                        *)
(***************************************************************************)
C5_CommitFailureRecorded ==
    \A c \in Runs : \A k \in 1..Len(cycles[c].log) :
        (/\ cycles[c].log[k].kind = "commits"
         /\ cycles[c].log[k].answered
         /\ cycles[c].log[k].resp.net = "reject" \/ ~cycles[c].log[k].resp.ok)
            => /\ cycles[c].log[k].account \in DOMAIN cycles[c].newErrors
               /\ k < Len(cycles[c].log) => cycles[c].log[k + 1].kind # "commits"

(***************************************************************************)
(* C6: every record, published or being built, has at least one commit; a  *)
(* commit listing that comes back empty adds no record.                    *)
(***************************************************************************)
C6_NoRecordWithoutCommits ==
    /\ \A n \in 1..Len(activities) : Len(activities[n].commits) > 0
    /\ activities = <<>> \/ \E c \in Runs : PublishedRun(c) /\ activities = cycles[c].newActivities
    /\ \A c \in Runs :
          /\ \A n \in 1..Len(cycles[c].newActivities) :
                 Len(cycles[c].newActivities[n].commits) > 0
          /\ Len(cycles[c].newActivities) =
                 Cardinality({k \in 1..Len(cycles[c].log) :
                                 /\ cycles[c].log[k].kind = "commits"
                                 /\ cycles[c].log[k].answered
                                 /\ cycles[c].log[k].resp.body = "array"
                                 /\ cycles[c].log[k].resp.items # <<>>})

\* Records are published by a run that also got an empty commit listing.
C6_Witness ==
    \E c \in Runs :
        /\ PublishedRun(c)
        /\ mounted /\ lastDone = c
        /\ activities # <<>>
        /\ \E k \in 1..Len(cycles[c].log) :
              /\ cycles[c].log[k].kind = "commits"
              /\ cycles[c].log[k].answered
              /\ cycles[c].log[k].resp.body = "array"
              /\ cycles[c].log[k].resp.items = <<>>

(***************************************************************************)
(* C7: the lastUpdated of a record is the greatest author date of the      *)
(* commits returned for its repository, and its repoCount is the           *)
(* public_repos of the profile fetched for its account in the same pass,   *)
(* whatever the number of repositories with activity.                      *)
(***************************************************************************)
C7_LastUpdatedAndRepoCount ==
    \A c \in Runs : \A n \in 1..Len(cycles[c].newActivities) :
        LET r == cycles[c].newActivities[n]
            log == cycles[c].log
        IN  \E k \in Answered(c, "commits", r.profile) :
                /\ log[k].repo = r.repo
                /\ Len(r.commits) = Len(log[k].resp.items)
                /\ \A m \in 1..Len(r.commits) : r.commits[m].date = log[k].resp.items[m].date
                /\ \E m \in 1..Len(log[k].resp.items) : log[k].resp.items[m].date = r.lastUpdated
                /\ \A m \in 1..Len(log[k].resp.items) : log[k].resp.items[m].date <= r.lastUpdated
                /\ \E u \in Answered(c, "user", r.profile) :
                       /\ u < k
                       /\ \A v \in (u + 1)..k : log[v].kind # "user"
                       /\ r.repoCount = log[u].resp.val

\* A published record whose commits are not listed newest first, of an
\* account with more public repositories than records.
C7_Witness ==
    \E c \in Runs :
        /\ PublishedRun(c) /\ mounted /\ lastDone = c
        /\ \E n \in 1..Len(activities) :
              /\ Len(activities[n].commits) > 1
              /\ activities[n].commits[1].date < activities[n].lastUpdated
              /\ activities[n].repoCount > Len(RecordsOf(activities, activities[n].profile))

ProfileFound(c, a) ==
    /\ Answered(c, "user", a) # {}
    /\ \A k \in Answered(c, "user", a) : cycles[c].log[k].resp.body = "profile"

\* Every repository listing of run c for a was an array, empty or not as asked.
ReposListed(c, a, empty) ==
    /\ Answered(c, "repos", a) # {}
    /\ \A k \in Answered(c, "repos", a) :
          /\ cycles[c].log[k].resp.body = "array"
          /\ (cycles[c].log[k].resp.items = <<>>) = empty

NoCommitsAnywhere(c, a) ==
    /\ Answered(c, "commits", a) # {}
    /\ \A k \in Answered(c, "commits", a) :
          /\ cycles[c].log[k].resp.body = "array"
          /\ cycles[c].log[k].resp.items = <<>>

QuietAccount(c, a) ==
    PublishedRun(c) /\ ProfileFound(c, a) /\ ReposListed(c, a, FALSE) /\ NoCommitsAnywhere(c, a)

EmptyAccount(c, a) ==
    PublishedRun(c) /\ ProfileFound(c, a) /\ ReposListed(c, a, TRUE)

(***************************************************************************)
(* C8: in a run that is not aborted, an account with repositories and no   *)
(* commit since the reference date in any of them gets no record and no    *)
(* error entry; an account with no repository gets no record and the error *)
(* entry "No public repositories found for <account>".                     *)
(***************************************************************************)
C8_QuietVersusEmpty ==
    \A c \in Runs : \A a \in Accounts :
        /\ QuietAccount(c, a)
              => /\ RecordsOf(cycles[c].newActivities, a) = <<>>
                 /\ a \notin DOMAIN cycles[c].newErrors
        /\ EmptyAccount(c, a)
              => /\ RecordsOf(cycles[c].newActivities, a) = <<>>
                 /\ a \in DOMAIN cycles[c].newErrors
                 /\ cycles[c].newErrors[a] = Msg("No public repositories found for", a)

\* One published run has met an account of each kind.
C8_Witness ==
    \E c \in Runs : \E a, b \in Accounts :
        /\ QuietAccount(c, a)
        /\ EmptyAccount(c, b)
        /\ mounted /\ lastDone = c
        /\ DOMAIN errors = {b}
        /\ activities = <<>>

(***************************************************************************)
(* Vocabulary of the form properties.                                      *)
(***************************************************************************)
\* The account names a text holds.
Names(s) == LET ps == TrimmedPieces(s) IN {ps[i] : i \in 1..Len(ps)} \ {<<>>}

\* The text names at least one account, and only accounts already tracked.
AllNamesPresent(s) == Names(s) # {} /\ \A n \in Names(s) : Includes(profiles, n)

(***************************************************************************)
(* C9: submitting names that are all tracked already leaves the tracked    *)
(* list and its order as they are, arms no interval, clears none and       *)
(* starts no run: a step that changes any of these is no such submit.      *)
(***************************************************************************)
C9_DuplicateAddChangesNothing ==
    [][(profiles' # profiles \/ timers' # timers \/ cycles' # cycles)
          => \A s \in Inputs : AllNamesPresent(s) => ~HandleAddProfiles(s)]_vars

\* A text naming only tracked accounts was submitted and has stayed in the
\* box, with two accounts tracked, the interval armed and a run in flight.
C9_Witness ==
    /\ newProfiles # <<>>
    /\ AllNamesPresent(newProfiles)
    /\ Len(profiles) = 2
    /\ timers # {}
    /\ \E c \in Runs : InFlight(c)

(***************************************************************************)
(* C10: a run that follows a finished run, with the same remote data, the  *)
(* same tracked accounts and the same credential, and with no other run    *)
(* finishing in between, leaves the same activities and the same errors    *)
(* as the run before it.                                                   *)
(***************************************************************************)
C10_RerunIdempotent ==
    \A c1, c2 \in Runs :
        (/\ cycles[c2].pc = "done"
         /\ cycles[c2].prev = c1
         /\ cycles[c2].prevAtFinish = c1
         /\ cycles[c1].clean /\ cycles[c2].clean
         /\ cycles[c1].env = cycles[c2].env
         /\ cycles[c1].profiles = cycles[c2].profiles
         /\ cycles[c1].headers = cycles[c2].headers)
            => cycles[c2].result = cycles[c1].result

\* A second run over the same data has published records and an error entry.
C10_Witness ==
    \E c1, c2 \in Runs :
        /\ PublishedRun(c1) /\ PublishedRun(c2)
        /\ cycles[c2].prev = c1
        /\ cycles[c2].prevAtFinish = c1
        /\ cycles[c1].clean /\ cycles[c2].clean
        /\ cycles[c1].env = cycles[c2].env
        /\ cycles[c1].profiles = cycles[c2].profiles
        /\ cycles[c1].headers = cycles[c2].headers
        /\ cycles[c2].result.activities # <<>>
        /\ cycles[c2].result.errors # EmptyMap
        /\ mounted /\ activities = cycles[c2].result.activities

(***************************************************************************)
(* The scheduler.  An armed interval fires again and again: setInterval    *)
(* calls fetchData every 100 seconds until clearInterval.  A firing always *)
(* appends a run to cycles.                                                *)
(***************************************************************************)
Fairness == WF_cycles(\E cl \in timers : TimerFire(cl))

SpecLive == Spec /\ Fairness

\* The scheduler is Running: accounts are tracked and the component is mounted.
Running == mounted /\ Len(profiles) > 0

Outcomes == {"ratefail", "quota", "published"}

\* Run c ends in this step.
Ends(c) == c \in Runs /\ cycles[c].pc # "done" /\ cycles'[c].pc = "done"

\* n runs have started and one of them has ended.
EndedAmong(n) == Len(cycles) = n /\ \E c \in Runs : cycles[c].pc = "done"

(***************************************************************************)
(* C11: however a run ends (failed rate-limit check, exhausted quota,      *)
(* published with or without per-account errors), the step that ends it    *)
(* leaves the armed intervals as they are, an interval is armed whenever   *)
(* the scheduler is Running, and while it stays Running a further run      *)
(* starts after a run has ended.                                           *)
(***************************************************************************)
C11_SchedulerSurvivesOutcome ==
    /\ [][\A c \in Runs : Ends(c) => timers' = timers /\ mounted' = mounted]_vars
    /\ [](Running => timers # {})
    /\ \A n \in 1..(MaxCycles - 1) :
          (EndedAmong(n) /\ Running) ~> (Len(cycles) > n \/ ~Running)

\* A run ended on a failed rate-limit check with one account tracked and the
\* same token; the interval then fired and started the next run.
C11_Witness ==
    /\ Len(cycles) = 2
    /\ cycles[1].outcome = "ratefail"
    /\ cycles[2].prev = 1
    /\ cycles[2].profiles = cycles[1].profiles
    /\ cycles[2].headers = cycles[1].headers
    /\ Running

\* The runs that have started, in flight or ended.
Started == Len(cycles)

(***************************************************************************)
(* C12: once the component is unmounted no interval is armed, it stays     *)
(* unmounted, and no run starts any more; the runs in flight at the        *)
(* unmount are not aborted, so the only runs that end afterwards are runs  *)
(* that had started before.                                                *)
(***************************************************************************)
C12_NoRunAfterStop ==
    /\ [](~mounted => timers = {})
    /\ [][~mounted => /\ ~mounted'
                      /\ timers' = {}
                      /\ Started' = Started]_vars
    /\ [][(mounted /\ ~mounted') => cycles' = cycles]_vars

\* Unmounted with an interval armed before: the run in flight at the unmount
\* went on to its end, and what it calls setActivities with is not shown.
C12_Witness ==
    /\ ~mounted
    /\ timers = {}
    /\ \E c \in Runs :
          /\ lastDone = c
          /\ PublishedRun(c)
          /\ Len(cycles[c].log) > 2
          /\ cycles[c].newActivities # <<>>
          /\ activities = <<>>

\* Request k of run c is a commit request whose fetch or json() threw.
CommitFetchThrew(c, k) ==
    /\ cycles[c].log[k].kind = "commits"
    /\ cycles[c].log[k].answered
    /\ cycles[c].log[k].resp.net = "reject" \/ cycles[c].log[k].resp.body = "nojson"

\* Request k of run c is a commit request that failed: it threw, or it was
\* answered with a non-success status.
CommitFetchFailed(c, k) ==
    /\ cycles[c].log[k].kind = "commits"
    /\ cycles[c].log[k].answered
    /\ cycles[c].log[k].resp.net = "reject" \/ ~cycles[c].log[k].resp.ok

\* The commit requests of the pass over an account that ends with request k.
SamePass(c, k) ==
    {m \in 1..k : /\ cycles[c].log[m].kind = "commits"
                  /\ \A v \in m..k : cycles[c].log[v].kind = "commits"}

(***************************************************************************)
(* C13 as stated: in a published result, an account one of whose commit    *)
(* requests failed has no record; no account has both an error entry and   *)
(* records.                                                                *)
(***************************************************************************)
C13_EarlierResultsDiscarded ==
    \A c \in Runs : \A k \in 1..Len(cycles[c].log) :
        (PublishedRun(c) /\ CommitFetchThrew(c, k))
            => /\ cycles[c].log[k].account \in DOMAIN cycles[c].newErrors
               /\ RecordsOf(cycles[c].newActivities, cycles[c].log[k].account) = <<>>

(***************************************************************************)
(* C13 amended: when the commit request of the k-th repository of an       *)
(* account fails, the records pushed for its earlier repositories stay:    *)
(* the published result holds a record for every earlier repository of     *)
(* that pass that returned commits.  When the request threw, the account   *)
(* also gets the error entry and its remaining repositories are not        *)
(* fetched.                                                                *)
(***************************************************************************)
C13_EarlierResultsKept ==
    \A c \in Runs : \A k \in 1..Len(cycles[c].log) :
        (PublishedRun(c) /\ CommitFetchFailed(c, k))
            => LET a == cycles[c].log[k].account
                   log == cycles[c].log
               IN  /\ CommitFetchThrew(c, k)
                         => /\ a \in DOMAIN cycles[c].newErrors
                            /\ k < Len(log) => log[k + 1].kind # "commits"
                   /\ \A m \in SamePass(c, k) :
                         (log[m].resp.body = "array" /\ log[m].resp.items # <<>>)
                             => \E n \in 1..Len(cycles[c].newActivities) :
                                    /\ cycles[c].newActivities[n].profile = a
                                    /\ cycles[c].newActivities[n].repo = log[m].repo
                   /\ (mounted /\ lastDone = c) => activities = cycles[c].newActivities

\* The shown result holds a record of an account together with the error
\* entry of its second commit request, which was rejected.
C13_Witness ==
    \E c \in Runs : \E k \in 1..Len(cycles[c].log) :
        /\ PublishedRun(c) /\ mounted /\ lastDone = c
        /\ CommitFetchThrew(c, k)
        /\ Cardinality(SamePass(c, k)) = 2
        /\ cycles[c].log[k].account \in DOMAIN errors
        /\ RecordsOf(activities, cycles[c].log[k].account) # <<>>

\* seq is the beginning of seq2.
IsPrefix(seq, seq2) == Len(seq) <= Len(seq2) /\ SubSeq(seq2, 1, Len(seq)) = seq

(***************************************************************************)
(* C14 as stated: whatever texts are submitted, no account is tracked      *)
(* twice, and a submit only appends: the accounts tracked before keep      *)
(* their places and none is lost.                                          *)
(***************************************************************************)
C14_NoDuplicateOrderKept ==
    /\ [](\A i, j \in 1..Len(profiles) : profiles[i] = profiles[j] => i = j)
    /\ [][IsPrefix(profiles, profiles')]_vars

\* This step starts exactly one run, with the given accounts and headers,
\* and touches no other run.
StartsRun(profs, hdrs) ==
    /\ Started' = Started + 1
    /\ SubSeq(cycles', 1, Started) = cycles
    /\ cycles'[Started'] = FetchData(profs, hdrs)

\* This step is a firing of an armed interval.
IntervalFires ==
    /\ UNCHANGED <<profiles, token, timers>>
    /\ \E cl \in timers : StartsRun(cl.profiles, cl.headers)

(***************************************************************************)
(* C15: a run starts in exactly these steps: a step that changes the       *)
(* tracked list, a step that changes the token while accounts are tracked  *)
(* (both start one run with the new list and the new token), and a firing  *)
(* of the armed interval (one run per firing).  While no account is        *)
(* tracked no run exists, so no request is issued, also when the token     *)
(* changes.                                                                *)
(***************************************************************************)
C15_CycleStartEvents ==
    /\ [](Len(profiles) = 0 => cycles = <<>> /\ timers = {})
    /\ [][/\ profiles' # profiles
             => Len(profiles') > 0 /\ StartsRun(profiles', Headers(token'))
          /\ (token' # token /\ Len(profiles) > 0)
             => StartsRun(profiles', Headers(token'))
          /\ (token' # token /\ Len(profiles) = 0)
             => cycles' = cycles /\ timers' = timers
          /\ Started' # Started
             => \/ profiles' # profiles
                \/ token' # token
                \/ IntervalFires]_vars

\* The token was set while no account was tracked and no run started; the
\* first account then started a run with that token, and the interval fired
\* once and started the second.
C15_Witness ==
    /\ Started = 2
    /\ profiles = <<<<"a">>>>
    /\ token = "t"
    /\ cycles[1].profiles = profiles /\ cycles[1].headers = Headers("t")
    /\ cycles[2].profiles = profiles /\ cycles[2].headers = Headers("t")
    /\ mounted

\* What is shown is the initial, empty result.
ShowsNothing == activities = <<>> /\ errors = EmptyMap

\* What is shown is, as a whole, what the published run c left.
ShowsResultOf(c) ==
    /\ PublishedRun(c)
    /\ activities = cycles[c].newActivities
    /\ errors = cycles[c].newErrors

\* What is shown are the activities of the published run c under the one
\* global message of a run that was aborted later.
ShowsAbortAfter(c) ==
    /\ PublishedRun(c)
    /\ activities = cycles[c].newActivities
    /\ DOMAIN errors = {GlobalKey}

(***************************************************************************)
(* C16: the activities and the per-account errors shown change only in the *)
(* step that ends a run, and a run that publishes replaces both in that    *)
(* one step by its own locals.  So what is shown is never the list a run   *)
(* in flight is building, and the activities shown always come with the    *)
(* per-account errors of the same published run (or with none, under the   *)
(* global message of a later aborted run).                                 *)
(***************************************************************************)
C16_AtomicPublish ==
    /\ [](\/ ShowsNothing
          \/ DOMAIN errors = {GlobalKey} /\ activities = <<>>
          \/ \E c \in Runs : ShowsResultOf(c) \/ ShowsAbortAfter(c))
    /\ [][/\ activities' # activities
             => \E c \in Runs : Ends(c) /\ PublishedRun(c)' /\ mounted
          /\ PerAccount(errors') # PerAccount(errors)
             => \E c \in Runs : Ends(c) /\ mounted
          /\ \A c \in Runs :
                (Ends(c) /\ PublishedRun(c)' /\ mounted)
                    => /\ activities' = cycles'[c].newActivities
                       /\ errors' = cycles'[c].newErrors]_vars

\* The result of a published run, records and a per-account error, is shown
\* while a later run in flight has already built a different list.
C16_Witness ==
    \E c1, c2 \in Runs :
        /\ mounted /\ lastDone = c1
        /\ ShowsResultOf(c1)
        /\ activities # <<>>
        /\ PerAccount(errors) # EmptyMap
        /\ InFlight(c2)
        /\ cycles[c2].newActivities # <<>>
        /\ cycles[c2].newActivities # activities

\* The runs in flight.
RunsInFlight == {c \in Runs : InFlight(c)}

(***************************************************************************)
(* C17 as stated: at most one run is in flight at any time; no run starts  *)
(* while an earlier run has not yet ended.                                 *)
(***************************************************************************)
C17_SingleRunInFlight == Cardinality(RunsInFlight) <= 1

(***************************************************************************)
(* C18: a run started by a step gets the token and the tracked list that   *)
(* step leaves; they never change while the run goes on, and each of its   *)
(* requests carries the headers made of that token and asks for one of     *)
(* those accounts, whatever the token has become since.                    *)
(***************************************************************************)
C18_CredentialOfTheStart ==
    /\ [](\A c \in Runs : \A k \in 1..Len(cycles[c].log) :
             /\ cycles[c].log[k].headers = cycles[c].headers
             /\ cycles[c].log[k].kind # "rate_limit"
                   => Includes(cycles[c].profiles, cycles[c].log[k].account))
    /\ [][/\ \A c \in Runs :
                /\ cycles'[c].headers = cycles[c].headers
                /\ cycles'[c].profiles = cycles[c].profiles
          /\ Started' # Started
                => /\ cycles'[Started'].headers = Headers(token')
                   /\ cycles'[Started'].profiles = profiles']_vars

\* A run that started without a token has ended, all its account requests
\* sent without one, after the token was set and a second run had started
\* with it and sent its own requests.
C18_Witness ==
    \E c1, c2 \in Runs :
        /\ c1 < c2
        /\ token = "t"
        /\ cycles[c1].headers = {} /\ cycles[c2].headers = Headers("t")
        /\ cycles[c2].prev = 0
        /\ cycles[c1].prevAtFinish = c2
        /\ PublishedRun(c1) /\ Len(cycles[c1].log) > 3
        /\ Len(cycles[c2].log) > 3

(***************************************************************************)
(* C19 as stated: once a run has published, no run that started before it  *)
(* publishes afterwards, so what is shown stems from the latest started    *)
(* run among those that have ended.                                        *)
(***************************************************************************)
C19_NoStaleOverwrite ==
    [][\A a, b \in Runs :
          (a < b /\ PublishedRun(b) /\ Ends(a) /\ mounted) => ~PublishedRun(a)']_vars

(***************************************************************************)
(* C20: at most one interval is armed; one is armed exactly when the       *)
(* component is mounted with a non-empty tracked list, and it is the       *)
(* interval of the latest render: a step that arms an interval leaves no   *)
(* other armed.                                                            *)
(***************************************************************************)
C20_SingleTimer ==
    /\ Cardinality(timers) <= 1
    /\ timers # {} <=> Running
    /\ timers \subseteq {Closure(profiles, token)}

\* The interval armed with the first account was cleared and armed again
\* when the token was set: one interval, that of the latest render.
C20_Witness ==
    /\ Started = 2
    /\ cycles[1].headers = {} /\ cycles[1].profiles = profiles
    /\ token = "t"
    /\ cycles[2].headers = Headers("t") /\ cycles[2].profiles = profiles
    /\ timers = {Closure(profiles, "t")}
    /\ mounted

====
